---------------------------- MODULE Spec2Model ----------------------------
(***************************************************************************)
(* Model of py-histogram-filter (package pybhf): GridAxis and Grid of      *)
(* pybhf/grid.py and HistogramFilterBase of pybhf/filter.py.               *)
(*                                                                         *)
(* Numbers.  The program computes with Python floats.  The model computes  *)
(* with exact rationals held as integers:                                  *)
(*   - axis coordinates (min, max, size, keys) are integers of one common  *)
(*     unit; get_index depends on them only through (key - min) / size,    *)
(*     so the unit itself is immaterial.  Sizes are even, so that size / 2 *)
(*     is again an integer;                                                *)
(*   - epsilon, cell values, thresholds and noise entries are counted in   *)
(*     millionths (Micro == 10^6 stands for 1.0), the resolution of the    *)
(*     default epsilon 0.000001.                                           *)
(* Floating-point rounding error is not modelled.                          *)
(***************************************************************************)
EXTENDS Integers, Sequences, FiniteSets, TLC

VARIABLES
    axis,       \* SpecAxis: the GridAxis under test
    acall,      \* SpecAxis: the last GridAxis call, its argument and outcome
    obj,        \* the Grid objects: "grid" (the belief) and, once taken, "copy"
    ndarray,    \* heap of numpy arrays, by reference
    pyset,      \* heap of Python sets of grid indices, by reference
    gcall,      \* the last Grid / filter call, its arguments and outcome
    filt,       \* the filter's fields _motion_noise and _observation_noise
    ncall       \* the last noise setter call, its argument and outcome

vars == <<axis, acall, obj, ndarray, pyset, gcall, filt, ncall>>

----------------------------------------------------------------------------
(* Bounds of the model and constants of the program.                       *)

MaxCoord == 6        \* axis max ranges over 0 .. MaxCoord
MaxNegMin == 1       \* axis min ranges over -MaxNegMin .. 1
MaxHalfSize == 2     \* axis size ranges over 0, 2, .., 2 * MaxHalfSize
MaxIndex == 4        \* get_key is called with indices -1 .. MaxIndex

Micro == 1000000           \* 1.0 in millionths
DefaultEpsilon == 1        \* epsilon: GridValue = field(default=0.000001)

None == [cls |-> "NoneType"]

Names == {"", "X", "Y"}
Mins == (0 - MaxNegMin) .. 1
Maxs == 0 .. MaxCoord
Sizes == {2 * h : h \in 0 .. MaxHalfSize}
Epsilons == {0, DefaultEpsilon, Micro \div 2, Micro}
Keys == (0 - MaxNegMin - 1) .. (MaxCoord + 1)
Indices == (0 - 1) .. MaxIndex

----------------------------------------------------------------------------
(* Python values.                                                          *)

\* int(num / den) for den > 0: Python's int() truncates toward zero.
int(num, den) ==
    IF num >= 0 THEN num \div den ELSE 0 - ((0 - num) \div den)

Ok(v) == [exc |-> "none", ret |-> v]
Raise(e) == [exc |-> e]

----------------------------------------------------------------------------
(* GridAxis.                                                               *)

GridAxis(name, min, max, size, epsilon) ==
    [cls |-> "GridAxis", name |-> name, min |-> min, max |-> max,
     size |-> size, epsilon |-> epsilon]

\* GridAxis.__post_init__: the exception construction ends in, or "none".
post_init(self) ==
    IF self.name = "" THEN "ValueError"
    ELSE IF self.min >= self.max THEN "ValueError"
    ELSE IF self.size <= 0 THEN "ValueError"
    ELSE IF self.epsilon <= 0 THEN "ValueError"
    ELSE "none"

AxisInputs ==
    {GridAxis(n, lo, hi, s, e) :
        n \in Names, lo \in Mins, hi \in Maxs, s \in Sizes, e \in Epsilons}

\* The axes construction yields.
ValidAxes == {a \in AxisInputs : post_init(a) = "none"}

_half_size(self) == self.size \div 2

n_bins(self) == int(self.max - self.min, self.size)

_is_valid_key(self, key) == self.min <= key /\ key <= self.max

_is_valid_index(self, index) == 0 <= index /\ index < n_bins(self)

\* GridAxis.copy: epsilon is not passed on, the copy has the default.
axis_copy(self) ==
    GridAxis(self.name, self.min, self.max, self.size, DefaultEpsilon)

\* GridAxis.get_index.  index is the rational inum / iden, epsilon the
\* rational self.epsilon / Micro; the result is int(index + epsilon).
get_index(self, key) ==
    IF ~ _is_valid_key(self, key) THEN Raise("IndexError")
    ELSE LET inum == IF key < self.max THEN key - self.min
                     ELSE n_bins(self) - 1
             iden == IF key < self.max THEN self.size ELSE 1
         IN  Ok(int(inum * Micro + self.epsilon * iden, iden * Micro))

\* GridAxis.get_key.
get_key(self, index) ==
    IF ~ _is_valid_index(self, index) THEN Raise("IndexError")
    ELSE Ok((index * self.size) + self.min + _half_size(self))

\* GridAxis.__eq__.
axis_eq(self, other) ==
    /\ other.cls = "GridAxis"
    /\ self.name = other.name
    /\ self.min = other.min
    /\ self.max = other.max
    /\ self.size = other.size

\* GridAxis.__hash__, generated by @dataclass(frozen=True) (eq defaults to
\* True, no explicit __hash__): hash of the tuple of all fields that take
\* part in comparison, which is every field, epsilon included.  The model
\* returns the hashed tuple itself.
axis_hash(self) ==
    <<self.name, self.min, self.max, self.size, self.epsilon>>

----------------------------------------------------------------------------
(* numpy arrays and Python sets live on a heap and are reached by          *)
(* reference: the model keeps the sharing the program has.                 *)

Heap == [nd |-> ndarray, ps |-> pyset]

\* np.empty((rows, cols)) followed by [:] = 0.0
zeros(rows, cols) ==
    [shape |-> <<rows, cols>>,
     data |-> [i \in (0 .. rows - 1) \X (0 .. cols - 1) |-> 0]]

\* numpy's bounds rule for a[(r, c)]: each index i of a dimension of length n
\* must satisfy -n <= i < n, and a negative one counts from the end.
nd_in_bounds(a, index) ==
    /\ 0 - a.shape[1] <= index[1] /\ index[1] < a.shape[1]
    /\ 0 - a.shape[2] <= index[2] /\ index[2] < a.shape[2]

nd_cell(a, index) ==
    <<IF index[1] < 0 THEN index[1] + a.shape[1] ELSE index[1],
      IF index[2] < 0 THEN index[2] + a.shape[2] ELSE index[2]>>

\* np.allclose(a, b): same shape here, |a - b| <= atol + rtol * |b| in every
\* cell, with atol = 1e-8 and rtol = 1e-5.  In millionths the right-hand side
\* is (1000 + |b|) / 100000, and the left-hand side is an integer.
abs(n) == IF n < 0 THEN 0 - n ELSE n

allclose(a, b) ==
    /\ a.shape = b.shape
    /\ \A i \in DOMAIN a.data :
          abs(a.data[i] - b.data[i]) <= (1000 + abs(b.data[i])) \div 100000

\* All orders in which a finite set can be iterated.
Orderings(S) ==
    {t \in [1 .. Cardinality(S) -> S] : \A e \in S : \E i \in DOMAIN t : t[i] = e}

RECURSIVE sum(_)
sum(t) == IF t = <<>> THEN 0 ELSE t[1] + sum(Tail(t))

----------------------------------------------------------------------------
(* Grid.                                                                   *)

DefaultThreshold == 10     \* zero_threshold: float = 0.00001
SigDigits == 8             \* self._sig_digits = 8

\* Grid.__init__, allocating the array at reference nd_ref and the set at
\* reference ps_ref of heap H.
Grid_init(H, x_axis, y_axis, zero_threshold, nd_ref, ps_ref) ==
    LET _x_axis == axis_copy(x_axis)
        _y_axis == axis_copy(y_axis)
    IN  IF _x_axis.cls # "GridAxis" \/ _y_axis.cls # "GridAxis"
          THEN [H |-> H, out |-> Raise("TypeError")]
        ELSE IF _x_axis.name = _y_axis.name
          THEN [H |-> H, out |-> Raise("ValueError")]
        ELSE IF zero_threshold < 0
          THEN [H |-> H, out |-> Raise("ValueError")]
        ELSE [H |-> [nd |-> (nd_ref :> zeros(n_bins(_y_axis), n_bins(_x_axis))) @@ H.nd,
                     ps |-> (ps_ref :> {}) @@ H.ps],
              out |-> Ok([cls |-> "Grid",
                          _x_axis |-> _x_axis,
                          _y_axis |-> _y_axis,
                          _zero_threshold |-> zero_threshold,
                          _grid |-> nd_ref,
                          _sig_digits |-> SigDigits,
                          _nonzero_cells |-> ps_ref])]

\* Grid._get_grid_index: keys (x_key, y_key) to indices (y_index, x_index).
_get_grid_index(self, key) ==
    LET x_index == get_index(self._x_axis, key[1])
        y_index == get_index(self._y_axis, key[2])
    IN  IF x_index.exc # "none" THEN x_index
        ELSE IF y_index.exc # "none" THEN y_index
        ELSE Ok(<<y_index.ret, x_index.ret>>)

\* Grid.__getitem__
Grid_getitem(H, self, key) ==
    LET index == _get_grid_index(self, key)
        a == H.nd[self._grid]
    IN  IF index.exc # "none" THEN index
        ELSE IF ~ nd_in_bounds(a, index.ret) THEN Raise("IndexError")
        ELSE Ok(a.data[nd_cell(a, index.ret)])

\* Grid.__setitem__: the set is updated first, the array last; an index the
\* array does not have raises at the array, after the set was updated.
Grid_setitem(H, self, key, value) ==
    LET index == _get_grid_index(self, key)
        a == H.nd[self._grid]
        keep == value >= self._zero_threshold
        stored == IF keep THEN value ELSE 0
        cells == IF keep THEN H.ps[self._nonzero_cells] \cup {index.ret}
                 ELSE H.ps[self._nonzero_cells] \ {index.ret}
        ps1 == [H.ps EXCEPT ![self._nonzero_cells] = cells]
    IN  IF index.exc # "none" THEN [H |-> H, out |-> index]
        ELSE IF ~ nd_in_bounds(a, index.ret)
          THEN [H |-> [nd |-> H.nd, ps |-> ps1], out |-> Raise("IndexError")]
        ELSE [H |-> [nd |-> [H.nd EXCEPT ![self._grid].data[nd_cell(a, index.ret)] = stored],
                     ps |-> ps1],
              out |-> Ok(None)]

\* Grid.__eq__ (the last conjunct compares self's set with itself)
Grid_eq(H, self, other) ==
    /\ axis_eq(self._x_axis, other._x_axis)
    /\ axis_eq(self._y_axis, other._y_axis)
    /\ self._zero_threshold = other._zero_threshold
    /\ allclose(H.nd[self._grid], H.nd[other._grid])
    /\ self._sig_digits = other._sig_digits
    /\ H.ps[self._nonzero_cells] = H.ps[self._nonzero_cells]

\* Grid.copy as it would be with the set assigned and not copied
\* (_copy._nonzero_cells = self._nonzero_cells).
Grid_copy_shared_set(H, self, nd_ref, ps_ref) ==
    LET new == Grid_init(H, self._x_axis, self._y_axis, self._zero_threshold,
                         nd_ref, ps_ref)
        _copy == [new.out.ret EXCEPT !._sig_digits = self._sig_digits,
                                     !._nonzero_cells = self._nonzero_cells]
        H1 == [nd |-> [new.H.nd EXCEPT ![nd_ref].data = H.nd[self._grid].data],
               ps |-> new.H.ps]
    IN  IF new.out.exc # "none" THEN new
        ELSE [H |-> H1, out |-> Ok(_copy)]

\* Grid.copy, the new grid's array and set allocated at nd_ref and ps_ref.
Grid_copy(H, self, nd_ref, ps_ref) ==
    LET new == Grid_init(H, self._x_axis, self._y_axis, self._zero_threshold,
                         nd_ref, ps_ref)
        _copy == [new.out.ret EXCEPT !._sig_digits = self._sig_digits]
        H1 == [nd |-> [new.H.nd EXCEPT ![nd_ref].data = H.nd[self._grid].data],
               ps |-> [new.H.ps EXCEPT ![ps_ref] = H.ps[self._nonzero_cells]]]
    IN  IF new.out.exc # "none" THEN new
        ELSE [H |-> H1, out |-> Ok(_copy)]

\* Grid.get_cell_key: indices (y_index, x_index) to keys (x_key, y_key).
get_cell_key(self, index) ==
    LET y_key == get_key(self._y_axis, index[1])
        x_key == get_key(self._x_axis, index[2])
    IN  IF y_key.exc # "none" THEN y_key
        ELSE IF x_key.exc # "none" THEN x_key
        ELSE Ok(<<x_key.ret, y_key.ret>>)

\* Grid.get_nonzero_cells: tuple(set) lists the set in the set's iteration
\* order, which the program does not fix; these are the tuples it can return.
get_nonzero_cells(H, self) == Orderings(H.ps[self._nonzero_cells])

\* Grid.get_nonzero_keys, when get_nonzero_cells returned cells.
get_nonzero_keys(self, cells) ==
    LET keys == [i \in DOMAIN cells |-> get_cell_key(self, cells[i])]
    IN  IF \E i \in DOMAIN keys : keys[i].exc # "none"
          THEN Raise("IndexError")
        ELSE Ok([i \in DOMAIN keys |-> keys[i].ret])

----------------------------------------------------------------------------
(* HistogramFilterBase.  Its belief is the Grid obj.grid; its two noise    *)
(* matrices are the fields of the variable filt.                           *)

\* A numpy array of the given shape (a tuple of one or two lengths).
array(shape, data) == [cls |-> "ndarray", shape |-> shape, data |-> data]

RECURSIVE sum_over(_, _)
sum_over(f, S) ==
    IF S = {} THEN 0
    ELSE LET i == CHOOSE j \in S : TRUE IN f[i] + sum_over(f, S \ {i})

np_sum(a) == sum_over(a.data, DOMAIN a.data)

\* [[1.0]]
UnitNoise == array(<<1, 1>>, [i \in {<<1, 1>>} |-> Micro])

\* HistogramFilterBase._is_valid_noise
_is_valid_noise(noise) ==
    /\ Len(noise.shape) = 2
    /\ noise.shape[1] = noise.shape[2]
    /\ np_sum(noise) = Micro

\* set_motion_noise as it would be with the matrix stored before it is
\* validated.
set_motion_noise_store_first(self, noise) ==
    LET arr == IF noise.cls = "NoneType" THEN UnitNoise ELSE noise
    IN  [self |-> [self EXCEPT !._motion_noise = arr],
         out |-> IF ~ _is_valid_noise(arr) THEN Raise("ValueError") ELSE Ok(None)]

\* HistogramFilterBase.set_motion_noise
set_motion_noise(self, noise) ==
    LET arr == IF noise.cls = "NoneType" THEN UnitNoise ELSE noise
    IN  IF ~ _is_valid_noise(arr) THEN [self |-> self, out |-> Raise("ValueError")]
        ELSE [self |-> [self EXCEPT !._motion_noise = arr], out |-> Ok(None)]

\* HistogramFilterBase.set_observation_noise
set_observation_noise(self, noise) ==
    LET arr == IF noise.cls = "NoneType" THEN UnitNoise ELSE noise
    IN  IF ~ _is_valid_noise(arr) THEN [self |-> self, out |-> Raise("ValueError")]
        ELSE [self |-> [self EXCEPT !._observation_noise = arr], out |-> Ok(None)]

\* The noise part of HistogramFilterBase.__init__: both fields start as None
\* and are set through the setters; a rejected matrix ends construction.
filter_init_noise(motion_noise, observ_noise) ==
    LET s0 == [_motion_noise |-> None, _observation_noise |-> None]
        s1 == set_motion_noise(s0, motion_noise)
        s2 == set_observation_noise(s1.self, observ_noise)
    IN  IF s1.out.exc # "none" THEN s1 ELSE s2

\* HistogramFilterBase.sample: the outcomes it can end in when the belief's
\* nonzero cells are listed in the order cells.  rng.choice draws n_samples
\* rows of the keys with replacement, a row of probability 0 is never drawn.
sample(H, belief, n_samples, cells) ==
    LET positive_prob_keys == get_nonzero_keys(belief, cells)
        keys == positive_prob_keys.ret
        reads == [i \in DOMAIN keys |-> Grid_getitem(H, belief, keys[i])]
        probs == [i \in DOMAIN keys |-> reads[i].ret]
        drawn == {keys[i] : i \in {j \in DOMAIN keys : probs[j] > 0}}
    IN  IF positive_prob_keys.exc # "none" THEN {positive_prob_keys}
        ELSE IF Len(keys) = 0 THEN {Raise("RuntimeError")}
        ELSE IF \E i \in DOMAIN keys : reads[i].exc # "none"
          THEN {Raise("IndexError")}
        ELSE IF sum(probs) # Micro THEN {Raise("RuntimeError")}
        ELSE {Ok(s) : s \in [1 .. n_samples -> drawn]}

----------------------------------------------------------------------------
(* SpecAxis: one constructed GridAxis and the calls made on it, one at a    *)
(* time: acall holds the call whose outcome the caller is looking at.      *)

NoCall == [op |-> "none"]

\* Objects a GridAxis is compared with: other axes and one non-axis object.
Others == ValidAxes \cup {None}

AxisGetIndex(key) ==
    /\ acall = NoCall
    /\ acall' = [op |-> "get_index", arg |-> key, out |-> get_index(axis, key)]
    /\ UNCHANGED axis

AxisGetKey(index) ==
    /\ acall = NoCall
    /\ acall' = [op |-> "get_key", arg |-> index, out |-> get_key(axis, index)]
    /\ UNCHANGED axis

AxisCopy ==
    /\ acall = NoCall
    /\ acall' = [op |-> "copy", out |-> Ok(axis_copy(axis))]
    /\ UNCHANGED axis

\* axis == other
AxisEq(other) ==
    /\ acall = NoCall
    /\ acall' = [op |-> "__eq__", arg |-> other, out |-> Ok(axis_eq(axis, other))]
    /\ UNCHANGED axis

\* hash(axis) and hash(other), for another axis
AxisHash(other) ==
    /\ acall = NoCall
    /\ acall' = [op |-> "__hash__", arg |-> other,
                 out |-> Ok(<<axis_hash(axis), axis_hash(other)>>)]
    /\ UNCHANGED axis

\* The caller has looked at the outcome of the call and goes on.
AxisReturn ==
    /\ acall # NoCall
    /\ acall' = NoCall
    /\ UNCHANGED axis

GridIdle == UNCHANGED <<obj, ndarray, pyset, gcall>>
NoiseIdle == UNCHANGED <<filt, ncall>>
AxisIdle == UNCHANGED <<axis, acall>>

AxisNext ==
    \/ \E key \in Keys : AxisGetIndex(key)
    \/ \E index \in Indices : AxisGetKey(index)
    \/ AxisCopy
    \/ \E other \in Others : AxisEq(other)
    \/ \E other \in ValidAxes : AxisHash(other)
    \/ AxisReturn

----------------------------------------------------------------------------
(* The filter's belief grid, a copy of it, and the calls made on them, one  *)
(* at a time: gcall holds the call whose outcome the caller is looking at. *)

MaxGridX == 5        \* the grid's x axis is [0, max] with max in 1 .. MaxGridX
MaxGridY == 2        \* the grid's y axis is [0, max] with max in 1 .. MaxGridY
MaxSamples == 2      \* sample is called with n_samples in 0 .. MaxSamples

\* The axes a grid is built from: bins of size 2 from 0 on, with ranges that
\* hold no bin, a whole number of bins, or a whole number and a remainder.
GridXInputs ==
    {a \in ValidAxes : a.name = "X" /\ a.min = 0 /\ a.size = 2 /\ a.max <= MaxGridX}
GridYInputs ==
    {a \in ValidAxes : a.min = 0 /\ a.size = 2 /\ a.max <= MaxGridY}
Thresholds == {0 - DefaultThreshold, 0, DefaultThreshold}

\* Values written: below the default threshold, a half and the whole.
Values == {5, Micro \div 2, Micro}

GridKeys == ((0 - 1) .. (MaxGridX + 1)) \X ((0 - 1) .. (MaxGridY + 1))
GridIndices == ((0 - 1) .. (MaxGridY \div 2)) \X ((0 - 1) .. (MaxGridX \div 2))

\* The grids that exist: the belief and, once taken, its copy.
Objects == {o \in {"grid", "copy"} : obj[o].cls = "Grid"}

SetItem(o, key, value) ==
    LET r == Grid_setitem(Heap, obj[o], key, value)
    IN  /\ gcall = NoCall
        /\ ndarray' = r.H.nd
        /\ pyset' = r.H.ps
        /\ gcall' = [op |-> "__setitem__", target |-> o, key |-> key,
                     value |-> value, out |-> r.out]
        /\ UNCHANGED obj

GetItem(o, key) ==
    /\ gcall = NoCall
    /\ gcall' = [op |-> "__getitem__", target |-> o, key |-> key,
                 out |-> Grid_getitem(Heap, obj[o], key)]
    /\ UNCHANGED <<obj, ndarray, pyset>>

GetCellKey(o, index) ==
    /\ gcall = NoCall
    /\ gcall' = [op |-> "get_cell_key", target |-> o, index |-> index,
                 out |-> get_cell_key(obj[o], index)]
    /\ UNCHANGED <<obj, ndarray, pyset>>

GetNonzeroKeys(o) ==
    \E cells \in get_nonzero_cells(Heap, obj[o]) :
        /\ gcall = NoCall
        /\ gcall' = [op |-> "get_nonzero_keys", target |-> o,
                     out |-> get_nonzero_keys(obj[o], cells)]
        /\ UNCHANGED <<obj, ndarray, pyset>>

\* HistogramFilterBase.sample on the belief
Sample(n_samples) ==
    \E cells \in get_nonzero_cells(Heap, obj.grid) :
        \E out \in sample(Heap, obj.grid, n_samples, cells) :
            /\ gcall = NoCall
            /\ gcall' = [op |-> "sample", target |-> "grid",
                         n_samples |-> n_samples, out |-> out]
            /\ UNCHANGED <<obj, ndarray, pyset>>

\* copy = grid.copy(); an earlier copy is dropped and its storage reused.
Copy ==
    LET r == Grid_copy(Heap, obj.grid, 2, 2)
    IN  /\ gcall = NoCall
        /\ obj' = [obj EXCEPT !.copy = r.out.ret]
        /\ ndarray' = r.H.nd
        /\ pyset' = r.H.ps
        /\ gcall' = [op |-> "copy", target |-> "grid", out |-> Ok("copy")]

\* a == b for two of the grids
Eq(a, b) ==
    /\ gcall = NoCall
    /\ gcall' = [op |-> "__eq__", target |-> a, other |-> b,
                 out |-> Ok(Grid_eq(Heap, obj[a], obj[b]))]
    /\ UNCHANGED <<obj, ndarray, pyset>>

GridReturn ==
    /\ gcall # NoCall
    /\ gcall' = NoCall
    /\ UNCHANGED <<obj, ndarray, pyset>>

\* Calls on the belief alone.
BeliefNext ==
    \/ \E key \in GridKeys, value \in Values : SetItem("grid", key, value)
    \/ \E key \in GridKeys : GetItem("grid", key)
    \/ \E index \in GridIndices : GetCellKey("grid", index)
    \/ GetNonzeroKeys("grid")
    \/ \E n_samples \in 0 .. MaxSamples : Sample(n_samples)
    \/ GridReturn

\* Writes to the belief and to its copy along the x axis, copies and
\* comparisons.
CopyKeys == (0 .. MaxGridX) \X {0}

CopyNext ==
    \/ \E o \in Objects, key \in CopyKeys, value \in Values : SetItem(o, key, value)
    \/ Copy
    \/ \E a \in Objects, b \in Objects : Eq(a, b)
    \/ GridReturn

----------------------------------------------------------------------------
(* The noise setters.                                                      *)

MaxNoiseCells == 4   \* noise arrays hold up to MaxNoiseCells entries

NoiseEntries == {0, Micro \div 2, Micro}

\* Short arrays of one axis, and arrays of two axes: rows, columns, squares.
NoiseShapes ==
    {<<n>> : n \in 1 .. 2} \cup
    {s \in (1 .. MaxNoiseCells) \X (1 .. MaxNoiseCells) : s[1] * s[2] <= MaxNoiseCells}

ShapeCells(shape) ==
    IF Len(shape) = 1 THEN {<<i>> : i \in 1 .. shape[1]}
    ELSE (1 .. shape[1]) \X (1 .. shape[2])

\* What a caller passes as noise: nothing, or an array of one or two axes.
NoiseInputs ==
    {None} \cup
    UNION {{array(shape, d) : d \in [ShapeCells(shape) -> NoiseEntries]} :
              shape \in NoiseShapes}

SetMotionNoise(arg) ==
    LET r == set_motion_noise(filt, arg)
    IN  /\ ncall = NoCall
        /\ filt' = r.self
        /\ ncall' = [op |-> "set_motion_noise", arg |-> arg, out |-> r.out]

SetObservationNoise(arg) ==
    LET r == set_observation_noise(filt, arg)
    IN  /\ ncall = NoCall
        /\ filt' = r.self
        /\ ncall' = [op |-> "set_observation_noise", arg |-> arg, out |-> r.out]

NoiseReturn ==
    /\ ncall # NoCall
    /\ ncall' = NoCall
    /\ UNCHANGED filt

NoiseNext ==
    \/ \E arg \in NoiseInputs : SetMotionNoise(arg)
    \/ \E arg \in NoiseInputs : SetObservationNoise(arg)
    \/ NoiseReturn

----------------------------------------------------------------------------
(* Initial states and specifications.                                      *)

\* A constructed GridAxis.
AxisInit ==
    /\ axis \in ValidAxes
    /\ acall = NoCall

NoAxis ==
    /\ axis = None
    /\ acall = NoCall

\* The Grid a filter builds in _init_grid, for the axes and threshold given.
GridInit(xs, ys, thresholds) ==
    \E x_axis \in xs, y_axis \in ys, zero_threshold \in thresholds :
        LET r == Grid_init([nd |-> <<>>, ps |-> <<>>], x_axis, y_axis,
                           zero_threshold, 1, 1)
        IN  /\ r.out.exc = "none"
            /\ obj = [grid |-> r.out.ret, copy |-> None]
            /\ ndarray = r.H.nd
            /\ pyset = r.H.ps
            /\ gcall = NoCall

\* The noise fields as HistogramFilterBase.__init__ leaves them.  (A rejected
\* motion noise ends construction whatever the observation noise is.)
NoiseInit(inputs) ==
    \E motion_noise \in inputs :
        /\ filter_init_noise(motion_noise, None).out.exc = "none"
        /\ \E observ_noise \in inputs :
              LET r == filter_init_noise(motion_noise, observ_noise)
              IN  /\ r.out.exc = "none"
                  /\ filt = r.self
                  /\ ncall = NoCall

\* Spec: a filter built with default noise; its belief is written, read,
\* sampled and copied.
Init ==
    /\ NoAxis
    /\ GridInit(GridXInputs, GridYInputs, Thresholds)
    /\ NoiseInit({None})

Next == BeliefNext /\ AxisIdle /\ NoiseIdle

Spec == Init /\ [][Next]_vars

\* SpecCopy: the belief over an x axis of two bins and a y axis that is one
\* bin, and its copy.
InitCopy ==
    /\ NoAxis
    /\ GridInit({a \in GridXInputs : n_bins(a) = 2},
                {a \in GridYInputs : a.max = a.size}, Thresholds)
    /\ NoiseInit({None})

NextCopy == CopyNext /\ AxisIdle /\ NoiseIdle

SpecCopy == InitCopy /\ [][NextCopy]_vars

\* SpecAxis: a GridAxis on its own.
InitAxis ==
    /\ AxisInit
    /\ obj = None /\ ndarray = <<>> /\ pyset = <<>> /\ gcall = NoCall
    /\ filt = None /\ ncall = NoCall

NextAxis == AxisNext /\ GridIdle /\ NoiseIdle

SpecAxis == InitAxis /\ [][NextAxis]_vars

\* SpecNoise: a filter over the largest grid, built with any accepted noise;
\* its noise matrices are set again and again.
InitNoise ==
    /\ NoAxis
    /\ NoiseInit(NoiseInputs)
    /\ GridInit({a \in GridXInputs : a.max = MaxGridX /\ a.epsilon = DefaultEpsilon},
                {a \in GridYInputs : a.max = MaxGridY /\ a.name = "Y"
                                        /\ a.epsilon = DefaultEpsilon},
                {DefaultThreshold})

NextNoise == NoiseNext /\ AxisIdle /\ GridIdle

SpecNoise == InitNoise /\ [][NextNoise]_vars

----------------------------------------------------------------------------
(* Claims.                                                                 *)

belief == obj.grid
data == ndarray[belief._grid].data
nonzero == pyset[belief._nonzero_cells]
KeysInRange(g, key) ==
    _is_valid_key(g._x_axis, key[1]) /\ _is_valid_key(g._y_axis, key[2])

\* C1 (as claimed; Spec): in the fresh grid and after every write, the
\* nonzero-cell set is exactly the set of index pairs (row, col) with
\* data[row, col] >= zero_threshold.
C1_NonzeroSetExact ==
    nonzero = {i \in DOMAIN data : data[i] >= belief._zero_threshold}

\* C2 (as claimed; SpecAxis): get_index of a key k with min <= k <= max
\* returns an integer i with 0 <= i < n_bins.
C2_IndexInRange ==
    (acall.op = "get_index" /\ axis.min <= acall.arg /\ acall.arg <= axis.max)
        => /\ acall.out.exc = "none"
           /\ 0 <= acall.out.ret
           /\ acall.out.ret < n_bins(axis)

\* C3 (as claimed; SpecAxis): for every index i with 0 <= i < n_bins,
\* get_key(i) is a valid key and get_index(get_key(i)) = i.
C3_RoundTrip ==
    (acall.op = "get_key" /\ 0 <= acall.arg /\ acall.arg < n_bins(axis))
        => /\ acall.out.exc = "none"
           /\ axis.min <= acall.out.ret /\ acall.out.ret <= axis.max
           /\ get_index(axis, acall.out.ret).exc = "none"
           /\ get_index(axis, acall.out.ret).ret = acall.arg

\* C4 (as claimed; Spec): after a write of v at keys both in range, a read at
\* the same keys returns v and the cell is in the nonzero set if
\* v >= zero_threshold, and returns 0.0 with the cell out of the set if not.
C4_WriteThenRead ==
    (gcall.op = "__setitem__" /\ KeysInRange(belief, gcall.key))
        => LET read == Grid_getitem(Heap, belief, gcall.key)
               cell == <<get_index(belief._y_axis, gcall.key[2]).ret,
                         get_index(belief._x_axis, gcall.key[1]).ret>>
           IN  /\ read.exc = "none"
               /\ IF gcall.value >= belief._zero_threshold
                    THEN read.ret = gcall.value /\ cell \in nonzero
                    ELSE read.ret = 0 /\ cell \notin nonzero

\* A square matrix of two axes whose entries sum to exactly 1.0.
SquareAndSumsToOne(m) ==
    /\ m.cls = "ndarray"
    /\ Len(m.shape) = 2
    /\ m.shape[1] = m.shape[2]
    /\ sum_over(m.data, DOMAIN m.data) = Micro

\* C5 (SpecNoise): both stored noise matrices are always square matrices
\* summing to 1.0, and a setter called with a matrix that is not one fails
\* with a value error and leaves both stored matrices as they were.
C5_NoiseValid ==
    /\ [](SquareAndSumsToOne(filt._motion_noise)
          /\ SquareAndSumsToOne(filt._observation_noise))
    /\ [][(ncall'.op \in {"set_motion_noise", "set_observation_noise"}
            /\ ncall'.arg.cls = "ndarray" /\ ~ SquareAndSumsToOne(ncall'.arg))
           => (ncall'.out.exc = "ValueError" /\ filt' = filt)]_vars

\* C5 witness: a matrix that is square but sums to 1.5 was just rejected
\* while a matrix set earlier, not the default, is still the stored one.
C5_Witness ==
    /\ ncall.op = "set_motion_noise"
    /\ ncall.arg.cls = "ndarray"
    /\ Len(ncall.arg.shape) = 2 /\ ncall.arg.shape[1] = ncall.arg.shape[2]
    /\ np_sum(ncall.arg) = Micro + Micro \div 2
    /\ ncall.out.exc = "ValueError"
    /\ filt._motion_noise.shape = <<2, 2>>
    /\ filt._observation_noise.shape = <<2, 2>>

\* The values stored at the nonzero cells the array has.
StoredAt(cells) ==
    sum_over(data, cells \cap DOMAIN data)

\* C6 (as claimed; Spec): sample(n) fails with a runtime error when the
\* nonzero set is empty or the values at the nonzero cells do not sum to
\* 1.0; otherwise it returns n pairs, each the cell key of a nonzero cell.
\* (That sample leaves the belief unchanged is not part of this formula.)
C6_Sample ==
    gcall.op = "sample"
        => IF nonzero = {} \/ StoredAt(nonzero) # Micro
             THEN gcall.out.exc = "RuntimeError"
             ELSE /\ gcall.out.exc = "none"
                  /\ Len(gcall.out.ret) = gcall.n_samples
                  /\ \A i \in DOMAIN gcall.out.ret :
                        \E c \in nonzero :
                            /\ get_cell_key(belief, c).exc = "none"
                            /\ get_cell_key(belief, c).ret = gcall.out.ret[i]

\* C7 (as claimed; Spec): a read or write at keys (x, y) in range addresses
\* the cell (row, col) = (y_axis.get_index(y), x_axis.get_index(x));
\* cell_key(row, col) is (x_axis.get_key(col), y_axis.get_key(row)), the
\* centre of the bin that holds (x, y), and addresses the same cell.
C7_Transposition ==
    (gcall.op \in {"__setitem__", "__getitem__"} /\ KeysInRange(belief, gcall.key))
        => LET row == get_index(belief._y_axis, gcall.key[2]).ret
               col == get_index(belief._x_axis, gcall.key[1]).ret
               centre == get_cell_key(belief, <<row, col>>)
               x_key == get_key(belief._x_axis, col)
               y_key == get_key(belief._y_axis, row)
           IN  /\ gcall.out.exc = "none"
               /\ <<row, col>> \in DOMAIN data
               /\ gcall.op = "__getitem__" => gcall.out.ret = data[<<row, col>>]
               /\ gcall.op = "__setitem__" =>
                     data[<<row, col>>] =
                        IF gcall.value >= belief._zero_threshold
                        THEN gcall.value ELSE 0
               /\ centre.exc = "none"
               /\ x_key.exc = "none" /\ y_key.exc = "none"
               /\ centre.ret = <<x_key.ret, y_key.ret>>
               /\ 2 * abs(gcall.key[1] - x_key.ret) <= belief._x_axis.size
               /\ 2 * abs(gcall.key[2] - y_key.ret) <= belief._y_axis.size
               /\ _get_grid_index(belief, centre.ret).exc = "none"
               /\ _get_grid_index(belief, centre.ret).ret = <<row, col>>

\* C8 (as claimed; SpecAxis): get_index(max) returns exactly n_bins - 1.
C8_IndexOfMax ==
    (acall.op = "get_index" /\ acall.arg = axis.max)
        => /\ acall.out.exc = "none"
           /\ acall.out.ret = n_bins(axis) - 1

SameGrid(a, b) ==
    /\ a._x_axis.name = b._x_axis.name /\ a._x_axis.min = b._x_axis.min
    /\ a._x_axis.max = b._x_axis.max /\ a._x_axis.size = b._x_axis.size
    /\ a._y_axis.name = b._y_axis.name /\ a._y_axis.min = b._y_axis.min
    /\ a._y_axis.max = b._y_axis.max /\ a._y_axis.size = b._y_axis.size
    /\ a._zero_threshold = b._zero_threshold
    /\ ndarray[a._grid] = ndarray[b._grid]
    /\ pyset[a._nonzero_cells] = pyset[b._nonzero_cells]

\* C9 (SpecCopy): right after copy() the copy equals the original (axes,
\* threshold, array contents, also under Grid.__eq__) and has the same
\* nonzero set; a write to the copy changes neither the original's array nor
\* its nonzero set, and a write to the original does not change the copy's.
C9_CopyIndependent ==
    /\ [](gcall.op = "copy"
            => /\ SameGrid(obj.grid, obj.copy)
               /\ Grid_eq(Heap, obj.grid, obj.copy)
               /\ Grid_eq(Heap, obj.copy, obj.grid))
    /\ [][(gcall'.op = "__setitem__" /\ obj.copy.cls = "Grid")
            => LET other == IF gcall'.target = "copy" THEN obj.grid ELSE obj.copy
               IN  /\ ndarray'[other._grid] = ndarray[other._grid]
                   /\ pyset'[other._nonzero_cells] = pyset[other._nonzero_cells]]_vars

\* C9 witness: a copy taken of a grid with a nonzero cell was written and
\* now differs from the original in array and in nonzero set.
C9_Witness ==
    /\ gcall.op = "__setitem__" /\ gcall.target = "copy"
    /\ gcall.out.exc = "none"
    /\ pyset[obj.grid._nonzero_cells] # {}
    /\ pyset[obj.copy._nonzero_cells] # pyset[obj.grid._nonzero_cells]
    /\ ndarray[obj.copy._grid] # ndarray[obj.grid._grid]

SameFour(a, b) ==
    a.name = b.name /\ a.min = b.min /\ a.max = b.max /\ a.size = b.size

\* C10 (as claimed; SpecAxis): two axes are equal exactly when they agree on
\* name, min, max and size, and axes that agree on the four have the same
\* hash, whatever their epsilon.
C10_EqAndHash ==
    /\ (acall.op = "__eq__" /\ acall.arg.cls = "GridAxis")
          => acall.out.ret = SameFour(axis, acall.arg)
    /\ (acall.op = "__hash__" /\ SameFour(axis, acall.arg))
          => acall.out.ret[1] = acall.out.ret[2]

\* C11 (as claimed; Spec): a write that ends in an error, whether a key is
\* outside its axis range or the index pair addresses no cell of the array,
\* leaves the array and the nonzero-cell set as they were before the call.
C11_FailedWriteChangesNothing ==
    [][(gcall'.op = "__setitem__" /\ gcall'.out.exc # "none")
         => (ndarray' = ndarray /\ pyset' = pyset)]_vars

=============================================================================
